---- MODULE Spec2Model ----
(***************************************************************************)
(* Multi-agent report workflow of research-flow:                           *)
(*   modules/agent_state.py  (shared state, scoring)                       *)
(*   modules/agent_nodes.py  (the five nodes and the two routers)          *)
(*   modules/agent_graph.py  (graph wiring and run_report_generation)      *)
(* One action per graph node: the node body, the write-back of the         *)
(* returned state into the graph channels, and the edge that follows it.   *)
(***************************************************************************)
EXTENDS Integers, Sequences, FiniteSets, TLC

VARIABLES
    state,          \* the AgentState held in the graph channels
    pc,             \* the node the graph runs next ("END" when finished)
    run_status,     \* run_report_generation: "running" | "returned" | "raised"
    final_state,    \* run_report_generation's final_state (last streamed node output)
    has_gemini,     \* os.getenv("GEMINI_API_KEY") is not None
    has_openai,     \* os.getenv("OPENAI_API_KEY") is not None
    trace,          \* executed steps in order: <<node, branch, collaborator outcome>>
    emitted         \* every message a node appended, in order of emission

vars == <<state, pc, run_status, final_state, has_gemini, has_openai, trace, emitted>>

----------------------------------------------------------------------------
(* Bounds and program constants *)

\* longest text the narrative collaborator returns in the model
MaxTextLen == 250

\* len() of the mock text of senior_analyst_node
MockLen == 62

\* quality_score >= 80 approves
ApprovalThreshold == 80

\* debate_rounds >= 2 forces consensus
MaxDebateRounds == 2

\* issues[:3] in the rebuttal
RebuttalIssues == 3

ReportPeriods == {"2024-12-09 ~ 2024-12-15"}

Modules == <<"macro">>

MacroKeys == {"dxy", "us10y", "sp500", "nvda", "coin", "mstr"}

NoException == "None"

----------------------------------------------------------------------------
(* Python helpers *)

EmptyDict == <<>>

\* dict truthiness / len(dict)
IsEmptyDict(d) == DOMAIN d = {}

\* d[k] = v
DictSet(d, k, v) == [x \in (DOMAIN d) \cup {k} |-> IF x = k THEN v ELSE d[x]]

\* d.get(k, {})
DictGet(d, k) == IF k \in DOMAIN d THEN d[k] ELSE EmptyDict

RECURSIVE Rep(_)
\* "x" * n
Rep(n) ==
    IF n = 0 THEN ""
    ELSE LET half == Rep(n \div 2)
         IN half \o half \o (IF n % 2 = 1 THEN "x" ELSE "")

RECURSIVE SumLenOver(_, _)
\* sum(len(v) for v in d.values()) restricted to the keys in ks
SumLenOver(d, ks) ==
    IF ks = {} THEN 0
    ELSE LET k == CHOOSE x \in ks : TRUE
         IN Len(d[k]) + SumLenOver(d, ks \ {k})

SumLen(d) == SumLenOver(d, DOMAIN d)

RECURSIVE Join(_, _)
\* sep.join(seq)
Join(sep, seq) ==
    IF Len(seq) = 0 THEN ""
    ELSE IF Len(seq) = 1 THEN seq[1]
    ELSE seq[1] \o sep \o Join(sep, Tail(seq))

\* seq[:n]
Prefix(seq, n) == SubSeq(seq, 1, IF Len(seq) < n THEN Len(seq) ELSE n)

Max(a, b) == IF a >= b THEN a ELSE b

----------------------------------------------------------------------------
(* agent_state.py *)

create_initial_state(report_period) ==
    [ report_period     |-> report_period,
      current_step      |-> "initialization",
      raw_data          |-> EmptyDict,
      chart_paths       |-> EmptyDict,
      draft_content     |-> EmptyDict,
      reviewed_content  |-> EmptyDict,
      final_content     |-> EmptyDict,
      messages          |-> <<>>,
      debate_rounds     |-> 0,
      consensus_reached |-> FALSE,
      quality_score     |-> 0,
      issues            |-> <<>>,
      approval_status   |-> "pending",
      errors            |-> <<>> ]

AgentMessage(from_agent, to_agent, message_type, content) ==
    [ from_agent   |-> from_agent,
      to_agent     |-> to_agent,
      message_type |-> message_type,
      content      |-> content,
      timestamp    |-> "",
      metadata     |-> EmptyDict ]

\* metadata=None
None == [none |-> TRUE]

\* add_message(state, ...): the state as the call leaves it and the message
\* it returns; now is datetime.now().isoformat()
add_message(s, from_agent, to_agent, message_type, content, metadata, now) ==
    LET message == [ from_agent   |-> from_agent,
                     to_agent     |-> to_agent,
                     message_type |-> message_type,
                     content      |-> content,
                     timestamp    |-> now,
                     metadata     |-> IF metadata = None THEN EmptyDict
                                      ELSE metadata ]
    IN [state |-> s, message |-> message]

RawDataPenalty(s) ==
    IF IsEmptyDict(s.raw_data) THEN 20
    ELSE IF Cardinality(DOMAIN s.raw_data) < 2 THEN 10
    ELSE 0

ChartPenalty(s) ==
    IF IsEmptyDict(s.chart_paths) THEN 20
    ELSE IF SumLen(s.chart_paths) < 2 THEN 10
    ELSE 0

\* variant: the length check reads reviewed_content
ContentPenalty_reviewed(s) ==
    LET fc == s.reviewed_content
        n  == Max(Cardinality(DOMAIN fc), 1)
    IN IF IsEmptyDict(fc) THEN 30
       ELSE IF SumLen(fc) < 100 * n THEN 20
       ELSE IF SumLen(fc) < 200 * n THEN 10
       ELSE 0

\* avg_length < 100 with avg_length = sum / max(n, 1), compared without division
ContentPenalty(s) ==
    LET fc == s.final_content
        n  == Max(Cardinality(DOMAIN fc), 1)
    IN IF IsEmptyDict(fc) THEN 30
       ELSE IF SumLen(fc) < 100 * n THEN 20
       ELSE IF SumLen(fc) < 200 * n THEN 10
       ELSE 0

\* variant: the top bracket starts at 5 issues instead of above 5
IssuePenalty_from_five(s) ==
    LET num_issues == Len(s.issues)
    IN IF num_issues >= 5 THEN 30
       ELSE IF num_issues > 2 THEN 15
       ELSE IF num_issues > 0 THEN 5
       ELSE 0

IssuePenalty(s) ==
    LET num_issues == Len(s.issues)
    IN IF num_issues > 5 THEN 30
       ELSE IF num_issues > 2 THEN 15
       ELSE IF num_issues > 0 THEN 5
       ELSE 0

\* variant: every debate round already held costs 5 points
calculate_quality_score_history(s) ==
    Max(0, 100 - RawDataPenalty(s) - ChartPenalty(s)
               - ContentPenalty(s) - IssuePenalty(s) - 5 * s.debate_rounds)

calculate_quality_score(s) ==
    Max(0, 100 - RawDataPenalty(s) - ChartPenalty(s)
               - ContentPenalty(s) - IssuePenalty(s))

----------------------------------------------------------------------------
(* Outcome of a node body: the state it returns, or the exception it raises *)

Returns(s, branch) == [state |-> s, exc |-> NoException, branch |-> branch]

Raises(s, e) == [state |-> s, exc |-> e, branch |-> "raise"]

----------------------------------------------------------------------------
(* Collaborator outcomes, as seen by the worker nodes *)

\* fetch_module_data("macro", {}): the six-ticker mapping, or an exception
\* re-raised by fetch_yahoo_data
FetchOutcomes == {"ok", "raise"}

fetch_module_data(module) == [k \in MacroKeys |-> "series"]

\* generate_module_charts("macro", data) returns a prefix of the two macro
\* charts (it stops at its first internal failure); "raise" is an exception
\* reaching chartist_node
MacroCharts == <<"macro_overview.png", "crypto_stocks.png">>

ChartOutcomes ==
    {[raised |-> TRUE, charts |-> <<>>]}
    \cup {[raised |-> FALSE, charts |-> Prefix(MacroCharts, n)] : n \in 0..Len(MacroCharts)}

\* LLMWriter(model) raises, prepare_macro_context/writer.generate raises,
\* or writer.generate returns a text
LLMTextLens == {50, MaxTextLen}

LLMOutcomes ==
    {[kind |-> "ctor_raise", text |-> ""], [kind |-> "generate_raise", text |-> ""]}
    \cup {[kind |-> "text", text |-> Rep(n)] : n \in LLMTextLens}

MockText == Rep(MockLen)

----------------------------------------------------------------------------
(* agent_nodes.py: nodes *)

\* variant: approval needs a score strictly above the threshold
chief_editor_node_strict(s) ==
    IF s.current_step = "initialization" THEN
        Returns([s EXCEPT
            !.current_step = "data_collection",
            !.messages = Append(@, AgentMessage("chief_editor", "data_engineer",
                             "request", "fetch all data of " \o s.report_period))],
            "initialization")
    ELSE IF s.current_step = "review" THEN
        LET quality_score == calculate_quality_score(s)
        IN IF quality_score > ApprovalThreshold THEN
               Returns([s EXCEPT
                   !.quality_score = quality_score,
                   !.approval_status = "approved",
                   !.consensus_reached = TRUE,
                   !.final_content = s.reviewed_content,
                   !.current_step = "finalization"],
                   "approved")
           ELSE
               Returns([s EXCEPT
                   !.quality_score = quality_score,
                   !.approval_status = "rejected",
                   !.issues = Append(@, "quality score too low: "
                                         \o ToString(quality_score) \o "/100"),
                   !.debate_rounds = @ + 1,
                   !.current_step = "finalization"],
                   "rejected")
    ELSE
        Returns(s, "noop")

\* variant: a rejection replaces the issue list by the shortfall issue
chief_editor_node_overwrites_issues(s) ==
    IF s.current_step = "initialization" THEN
        Returns([s EXCEPT
            !.current_step = "data_collection",
            !.messages = Append(@, AgentMessage("chief_editor", "data_engineer",
                             "request", "fetch all data of " \o s.report_period))],
            "initialization")
    ELSE IF s.current_step = "review" THEN
        LET quality_score == calculate_quality_score(s)
        IN IF quality_score >= ApprovalThreshold THEN
               Returns([s EXCEPT
                   !.quality_score = quality_score,
                   !.approval_status = "approved",
                   !.consensus_reached = TRUE,
                   !.final_content = s.reviewed_content,
                   !.current_step = "finalization"],
                   "approved")
           ELSE
               Returns([s EXCEPT
                   !.quality_score = quality_score,
                   !.approval_status = "rejected",
                   !.issues = <<"quality score too low: "
                                \o ToString(quality_score) \o "/100">>,
                   !.debate_rounds = @ + 1,
                   !.current_step = "finalization"],
                   "rejected")
    ELSE
        Returns(s, "noop")

\* variant: the entry action also clears the issue list
chief_editor_node_init_clears(s) ==
    IF s.current_step = "initialization" THEN
        Returns([s EXCEPT
            !.current_step = "data_collection",
            !.issues = <<>>,
            !.messages = Append(@, AgentMessage("chief_editor", "data_engineer",
                             "request", "fetch all data of " \o s.report_period))],
            "initialization")
    ELSE IF s.current_step = "review" THEN
        LET quality_score == calculate_quality_score(s)
        IN IF quality_score >= ApprovalThreshold THEN
               Returns([s EXCEPT
                   !.quality_score = quality_score,
                   !.approval_status = "approved",
                   !.consensus_reached = TRUE,
                   !.final_content = s.reviewed_content,
                   !.current_step = "finalization"],
                   "approved")
           ELSE
               Returns([s EXCEPT
                   !.quality_score = quality_score,
                   !.approval_status = "rejected",
                   !.issues = Append(@, "quality score too low: "
                                         \o ToString(quality_score) \o "/100"),
                   !.debate_rounds = @ + 1,
                   !.current_step = "finalization"],
                   "rejected")
    ELSE
        Returns(s, "noop")

\* variant: the score is computed again when the step is finalization
chief_editor_node_rescore(s) ==
    IF s.current_step = "initialization" THEN
        Returns([s EXCEPT
            !.current_step = "data_collection",
            !.messages = Append(@, AgentMessage("chief_editor", "data_engineer",
                             "request", "fetch all data of " \o s.report_period))],
            "initialization")
    ELSE IF s.current_step = "review" THEN
        LET quality_score == calculate_quality_score(s)
        IN IF quality_score >= ApprovalThreshold THEN
               Returns([s EXCEPT
                   !.quality_score = quality_score,
                   !.approval_status = "approved",
                   !.consensus_reached = TRUE,
                   !.final_content = s.reviewed_content,
                   !.current_step = "finalization"],
                   "approved")
           ELSE
               Returns([s EXCEPT
                   !.quality_score = quality_score,
                   !.approval_status = "rejected",
                   !.issues = Append(@, "quality score too low: "
                                         \o ToString(quality_score) \o "/100"),
                   !.debate_rounds = @ + 1,
                   !.current_step = "finalization"],
                   "rejected")
    ELSE IF s.current_step = "finalization" THEN
        Returns([s EXCEPT !.quality_score = calculate_quality_score(s)], "noop")
    ELSE
        Returns(s, "noop")

\* variant: a rejection records no issue
chief_editor_node_silent_reject(s) ==
    IF s.current_step = "initialization" THEN
        Returns([s EXCEPT
            !.current_step = "data_collection",
            !.messages = Append(@, AgentMessage("chief_editor", "data_engineer",
                             "request", "fetch all data of " \o s.report_period))],
            "initialization")
    ELSE IF s.current_step = "review" THEN
        LET quality_score == calculate_quality_score(s)
        IN IF quality_score >= ApprovalThreshold THEN
               Returns([s EXCEPT
                   !.quality_score = quality_score,
                   !.approval_status = "approved",
                   !.consensus_reached = TRUE,
                   !.final_content = s.reviewed_content,
                   !.current_step = "finalization"],
                   "approved")
           ELSE
               Returns([s EXCEPT
                   !.quality_score = quality_score,
                   !.approval_status = "rejected",
                   !.debate_rounds = @ + 1,
                   !.current_step = "finalization"],
                   "rejected")
    ELSE
        Returns(s, "noop")

\* variant: a rejection does not count as a debate round
chief_editor_node_no_increment(s) ==
    IF s.current_step = "initialization" THEN
        Returns([s EXCEPT
            !.current_step = "data_collection",
            !.messages = Append(@, AgentMessage("chief_editor", "data_engineer",
                             "request", "fetch all data of " \o s.report_period))],
            "initialization")
    ELSE IF s.current_step = "review" THEN
        LET quality_score == calculate_quality_score(s)
        IN IF quality_score >= ApprovalThreshold THEN
               Returns([s EXCEPT
                   !.quality_score = quality_score,
                   !.approval_status = "approved",
                   !.consensus_reached = TRUE,
                   !.final_content = s.reviewed_content,
                   !.current_step = "finalization"],
                   "approved")
           ELSE
               Returns([s EXCEPT
                   !.quality_score = quality_score,
                   !.approval_status = "rejected",
                   !.issues = Append(@, "quality score too low: "
                                         \o ToString(quality_score) \o "/100"),
                   !.current_step = "finalization"],
                   "rejected")
    ELSE
        Returns(s, "noop")

chief_editor_node(s) ==
    IF s.current_step = "initialization" THEN
        Returns([s EXCEPT
            !.current_step = "data_collection",
            !.messages = Append(@, AgentMessage("chief_editor", "data_engineer",
                             "request", "fetch all data of " \o s.report_period))],
            "initialization")
    ELSE IF s.current_step = "review" THEN
        LET quality_score == calculate_quality_score(s)
        IN IF quality_score >= ApprovalThreshold THEN
               Returns([s EXCEPT
                   !.quality_score = quality_score,
                   !.approval_status = "approved",
                   !.consensus_reached = TRUE,
                   !.final_content = s.reviewed_content,
                   !.current_step = "finalization"],
                   "approved")
           ELSE
               Returns([s EXCEPT
                   !.quality_score = quality_score,
                   !.approval_status = "rejected",
                   !.issues = Append(@, "quality score too low: "
                                         \o ToString(quality_score) \o "/100"),
                   !.debate_rounds = @ + 1,
                   !.current_step = "finalization"],
                   "rejected")
    ELSE
        Returns(s, "noop")

\* variant: current_step advances although the fetch failed
data_engineer_node_advances(s, fetch) ==
    IF fetch = "ok" THEN
        Returns([s EXCEPT
            !.raw_data = DictSet(EmptyDict, Modules[1], fetch_module_data(Modules[1])),
            !.current_step = "chart_generation"],
            "ok")
    ELSE
        LET error_msg == "data fetch failed: " \o fetch
        IN Returns([s EXCEPT
               !.errors = Append(@, error_msg),
               !.issues = Append(@, error_msg),
               !.current_step = "chart_generation"],
               "except")

\* variant: the except clause re-raises after recording the error
data_engineer_node_reraise(s, fetch) ==
    IF fetch = "ok" THEN
        Returns([s EXCEPT
            !.raw_data = DictSet(EmptyDict, Modules[1], fetch_module_data(Modules[1])),
            !.current_step = "chart_generation"],
            "ok")
    ELSE
        LET error_msg == "data fetch failed: " \o fetch
        IN Raises([s EXCEPT
               !.errors = Append(@, error_msg),
               !.issues = Append(@, error_msg)],
               "Exception")

\* fetch is the outcome of fetch_module_data for the single module "macro"
data_engineer_node(s, fetch) ==
    IF fetch = "ok" THEN
        Returns([s EXCEPT
            !.raw_data = DictSet(EmptyDict, Modules[1], fetch_module_data(Modules[1])),
            !.current_step = "chart_generation"],
            "ok")
    ELSE
        LET error_msg == "data fetch failed: " \o fetch
        IN Returns([s EXCEPT
               !.errors = Append(@, error_msg),
               !.issues = Append(@, error_msg)],
               "except")

\* variant: no try/except around the rendering loop
chartist_node_uncaught(s, render) ==
    IF \A m \in DOMAIN s.raw_data : ~render[m].raised THEN
        Returns([s EXCEPT
            !.chart_paths = [m \in DOMAIN s.raw_data |-> render[m].charts],
            !.current_step = "content_generation"],
            "ok")
    ELSE
        Raises(s, "Exception")

\* render[m] is the outcome of generate_module_charts(m, raw_data[m])
chartist_node(s, render) ==
    IF \A m \in DOMAIN s.raw_data : ~render[m].raised THEN
        Returns([s EXCEPT
            !.chart_paths = [m \in DOMAIN s.raw_data |-> render[m].charts],
            !.current_step = "content_generation"],
            "ok")
    ELSE
        LET error_msg == "chart generation failed: " \o "raise"
        IN Returns([s EXCEPT
               !.errors = Append(@, error_msg),
               !.issues = Append(@, error_msg)],
               "except")

\* variant: the generated text is not copied into reviewed_content
senior_analyst_node_nocopy(s, gemini, openai, llm) ==
    IF ~(openai \/ gemini) THEN
        LET draft == DictSet(EmptyDict, "macro_analysis", MockText)
        IN Returns([s EXCEPT
               !.draft_content = draft,
               !.reviewed_content = draft,
               !.current_step = "review"],
               "mock")
    ELSE IF llm.kind = "ctor_raise" THEN
        LET error_msg == "content generation failed: " \o llm.kind
        IN Returns([s EXCEPT
               !.errors = Append(@, error_msg),
               !.issues = Append(@, error_msg)],
               "except")
    ELSE
        LET macro_data == DictGet(s.raw_data, "macro")
        IN IF ~IsEmptyDict(macro_data) THEN
               IF llm.kind = "generate_raise" THEN
                   LET error_msg == "content generation failed: " \o llm.kind
                   IN Returns([s EXCEPT
                          !.errors = Append(@, error_msg),
                          !.issues = Append(@, error_msg)],
                          "except")
               ELSE
                   LET draft == DictSet(EmptyDict, "macro_analysis", llm.text)
                   IN Returns([s EXCEPT
                          !.draft_content = draft,
                          !.current_step = "review"],
                          "llm")
           ELSE
               Returns([s EXCEPT
                   !.issues = Append(@, "no macro data, cannot generate content"),
                   !.current_step = "review"],
                   "no_macro_data")

\* gemini, openai: the two credential checks; llm: what the writer does
\* variant: the except clause also sets current_step
senior_analyst_node_except_advances(s, gemini, openai, llm) ==
    IF ~(openai \/ gemini) THEN
        LET draft == DictSet(EmptyDict, "macro_analysis", MockText)
        IN Returns([s EXCEPT
               !.draft_content = draft,
               !.reviewed_content = draft,
               !.current_step = "review"],
               "mock")
    ELSE IF llm.kind = "ctor_raise" THEN
        LET error_msg == "content generation failed: " \o llm.kind
        IN Returns([s EXCEPT
               !.errors = Append(@, error_msg),
               !.issues = Append(@, error_msg),
               !.current_step = "review"],
               "except")
    ELSE
        LET macro_data == DictGet(s.raw_data, "macro")
        IN IF ~IsEmptyDict(macro_data) THEN
               IF llm.kind = "generate_raise" THEN
                   LET error_msg == "content generation failed: " \o llm.kind
                   IN Returns([s EXCEPT
                          !.errors = Append(@, error_msg),
                          !.issues = Append(@, error_msg),
                          !.current_step = "review"],
                          "except")
               ELSE
                   LET draft == DictSet(EmptyDict, "macro_analysis", llm.text)
                   IN Returns([s EXCEPT
                          !.draft_content = draft,
                          !.reviewed_content = draft,
                          !.current_step = "review"],
                          "llm")
           ELSE
               Returns([s EXCEPT
                   !.issues = Append(@, "no macro data, cannot generate content"),
                   !.current_step = "review"],
                   "no_macro_data")

\* variant: the writer is used whether or not a credential is configured
senior_analyst_node_always_llm(s, gemini, openai, llm) ==
    IF llm.kind = "ctor_raise" THEN
        LET error_msg == "content generation failed: " \o llm.kind
        IN Returns([s EXCEPT
               !.errors = Append(@, error_msg),
               !.issues = Append(@, error_msg)],
               "except")
    ELSE
        LET macro_data == DictGet(s.raw_data, "macro")
        IN IF ~IsEmptyDict(macro_data) THEN
               IF llm.kind = "generate_raise" THEN
                   LET error_msg == "content generation failed: " \o llm.kind
                   IN Returns([s EXCEPT
                          !.errors = Append(@, error_msg),
                          !.issues = Append(@, error_msg)],
                          "except")
               ELSE
                   LET draft == DictSet(EmptyDict, "macro_analysis", llm.text)
                   IN Returns([s EXCEPT
                          !.draft_content = draft,
                          !.reviewed_content = draft,
                          !.current_step = "review"],
                          "llm")
           ELSE
               Returns([s EXCEPT
                   !.issues = Append(@, "no macro data, cannot generate content"),
                   !.current_step = "review"],
                   "no_macro_data")

senior_analyst_node(s, gemini, openai, llm) ==
    IF ~(openai \/ gemini) THEN
        LET draft == DictSet(EmptyDict, "macro_analysis", MockText)
        IN Returns([s EXCEPT
               !.draft_content = draft,
               !.reviewed_content = draft,
               !.current_step = "review"],
               "mock")
    ELSE IF llm.kind = "ctor_raise" THEN
        LET error_msg == "content generation failed: " \o llm.kind
        IN Returns([s EXCEPT
               !.errors = Append(@, error_msg),
               !.issues = Append(@, error_msg)],
               "except")
    ELSE
        LET macro_data == DictGet(s.raw_data, "macro")
        IN IF ~IsEmptyDict(macro_data) THEN
               IF llm.kind = "generate_raise" THEN
                   LET error_msg == "content generation failed: " \o llm.kind
                   IN Returns([s EXCEPT
                          !.errors = Append(@, error_msg),
                          !.issues = Append(@, error_msg)],
                          "except")
               ELSE
                   LET draft == DictSet(EmptyDict, "macro_analysis", llm.text)
                   IN Returns([s EXCEPT
                          !.draft_content = draft,
                          !.reviewed_content = draft,
                          !.current_step = "review"],
                          "llm")
           ELSE
               Returns([s EXCEPT
                   !.issues = Append(@, "no macro data, cannot generate content"),
                   !.current_step = "review"],
                   "no_macro_data")

\* variant: no test for an empty issue list
debate_node_nofastpath(s) ==
    LET issues == s.issues
        debate_rounds == s.debate_rounds
    IN IF debate_rounds >= MaxDebateRounds THEN
           Returns([s EXCEPT !.consensus_reached = TRUE], "forced")
       ELSE
           Returns([s EXCEPT
               !.messages = Append(@, AgentMessage("senior_analyst", "chief_editor",
                                "rebuttal",
                                "improved on: " \o Join(", ", Prefix(issues, RebuttalIssues)))),
               !.issues = <<>>,
               !.debate_rounds = debate_rounds + 1,
               !.current_step = "review"],
               "round")

\* variant: forcing consensus also clears the issue list
debate_node_forced_clears(s) ==
    LET issues == s.issues
        debate_rounds == s.debate_rounds
    IN IF Len(issues) = 0 THEN
           Returns([s EXCEPT !.consensus_reached = TRUE], "no_issues")
       ELSE IF debate_rounds >= MaxDebateRounds THEN
           Returns([s EXCEPT !.consensus_reached = TRUE, !.issues = <<>>], "forced")
       ELSE
           Returns([s EXCEPT
               !.messages = Append(@, AgentMessage("senior_analyst", "chief_editor",
                                "rebuttal",
                                "improved on: " \o Join(", ", Prefix(issues, RebuttalIssues)))),
               !.issues = <<>>,
               !.debate_rounds = debate_rounds + 1,
               !.current_step = "review"],
               "round")

\* variant: the rebuttal lists every issue
debate_node_allissues(s) ==
    LET issues == s.issues
        debate_rounds == s.debate_rounds
    IN IF Len(issues) = 0 THEN
           Returns([s EXCEPT !.consensus_reached = TRUE], "no_issues")
       ELSE IF debate_rounds >= MaxDebateRounds THEN
           Returns([s EXCEPT !.consensus_reached = TRUE], "forced")
       ELSE
           Returns([s EXCEPT
               !.messages = Append(@, AgentMessage("senior_analyst", "chief_editor",
                                "rebuttal",
                                "improved on: " \o Join(", ", issues))),
               !.issues = <<>>,
               !.debate_rounds = debate_rounds + 1,
               !.current_step = "review"],
               "round")

\* variant: the forcing test compares against a larger round count
debate_node_late(s) ==
    LET issues == s.issues
        debate_rounds == s.debate_rounds
    IN IF Len(issues) = 0 THEN
           Returns([s EXCEPT !.consensus_reached = TRUE], "no_issues")
       ELSE IF debate_rounds >= MaxDebateRounds + 2 THEN
           Returns([s EXCEPT !.consensus_reached = TRUE], "forced")
       ELSE
           Returns([s EXCEPT
               !.messages = Append(@, AgentMessage("senior_analyst", "chief_editor",
                                "rebuttal",
                                "improved on: " \o Join(", ", Prefix(issues, RebuttalIssues)))),
               !.issues = <<>>,
               !.debate_rounds = debate_rounds + 1,
               !.current_step = "review"],
               "round")

\* variant: a debate round decrements the counter
debate_node_decr(s) ==
    LET issues == s.issues
        debate_rounds == s.debate_rounds
    IN IF Len(issues) = 0 THEN
           Returns([s EXCEPT !.consensus_reached = TRUE], "no_issues")
       ELSE IF debate_rounds >= MaxDebateRounds THEN
           Returns([s EXCEPT !.consensus_reached = TRUE], "forced")
       ELSE
           Returns([s EXCEPT
               !.messages = Append(@, AgentMessage("senior_analyst", "chief_editor",
                                "rebuttal",
                                "improved on: " \o Join(", ", Prefix(issues, RebuttalIssues)))),
               !.issues = <<>>,
               !.debate_rounds = debate_rounds - 1,
               !.current_step = "review"],
               "round")

debate_node(s) ==
    LET issues == s.issues
        debate_rounds == s.debate_rounds
    IN IF Len(issues) = 0 THEN
           Returns([s EXCEPT !.consensus_reached = TRUE], "no_issues")
       ELSE IF debate_rounds >= MaxDebateRounds THEN
           Returns([s EXCEPT !.consensus_reached = TRUE], "forced")
       ELSE
           Returns([s EXCEPT
               !.messages = Append(@, AgentMessage("senior_analyst", "chief_editor",
                                "rebuttal",
                                "improved on: " \o Join(", ", Prefix(issues, RebuttalIssues)))),
               !.issues = <<>>,
               !.debate_rounds = debate_rounds + 1,
               !.current_step = "review"],
               "round")

----------------------------------------------------------------------------
(* agent_nodes.py: routers *)

\* variant: the default branch goes to the debate
route_after_chief_editor_default_debate(s) ==
    IF s.current_step = "data_collection" THEN "data_engineer"
    ELSE IF s.current_step = "finalization" THEN
        IF s.consensus_reached THEN "end" ELSE "debate"
    ELSE "debate"

\* variant: finalization goes to the debate whether or not consensus was reached
route_after_chief_editor_ignores_consensus(s) ==
    IF s.current_step = "data_collection" THEN "data_engineer"
    ELSE IF s.current_step = "finalization" THEN "debate"
    ELSE "end"

\* variant: finalization always ends the run
route_after_chief_editor_no_debate(s) ==
    IF s.current_step = "data_collection" THEN "data_engineer"
    ELSE IF s.current_step = "finalization" THEN "end"
    ELSE "end"

route_after_chief_editor(s) ==
    IF s.current_step = "data_collection" THEN "data_engineer"
    ELSE IF s.current_step = "finalization" THEN
        IF s.consensus_reached THEN "end" ELSE "debate"
    ELSE "end"

\* variant: the two destinations are swapped
route_after_debate_swapped(s) ==
    IF s.consensus_reached THEN "senior_analyst" ELSE "chief_editor"

route_after_debate(s) ==
    IF s.consensus_reached THEN "chief_editor" ELSE "senior_analyst"

----------------------------------------------------------------------------
(* agent_graph.py: the compiled graph and run_report_generation *)

\* messages: Annotated[List[Dict], operator.add]
operator_add(a, b) == a \o b

\* Write-back of a node's returned state into the channels.  The node gets the
\* channel's own list, appends to it in place and returns it, so the reducer is
\* applied to the mutated list and the (same) returned list; every other key
\* is a plain last-value channel.
apply_writes(returned) ==
    [returned EXCEPT !.messages = operator_add(returned.messages, returned.messages)]

\* variant: the edge out of data_engineer goes straight to senior_analyst
next_node_skips_chartist(node, s) ==
    IF node = "chief_editor" THEN
        LET r == route_after_chief_editor(s)
        IN IF r = "data_engineer" THEN "data_engineer"
           ELSE IF r = "debate" THEN "debate"
           ELSE "END"
    ELSE IF node = "data_engineer" THEN "senior_analyst"
    ELSE IF node = "chartist" THEN "senior_analyst"
    ELSE IF node = "senior_analyst" THEN "chief_editor"
    ELSE LET r == route_after_debate(s)
         IN IF r = "chief_editor" THEN "chief_editor" ELSE "senior_analyst"

\* add_conditional_edges / add_edge of create_workflow
next_node(node, s) ==
    IF node = "chief_editor" THEN
        LET r == route_after_chief_editor(s)
        IN IF r = "data_engineer" THEN "data_engineer"
           ELSE IF r = "debate" THEN "debate"
           ELSE "END"
    ELSE IF node = "data_engineer" THEN "chartist"
    ELSE IF node = "chartist" THEN "senior_analyst"
    ELSE IF node = "senior_analyst" THEN "chief_editor"
    ELSE LET r == route_after_debate(s)
         IN IF r = "chief_editor" THEN "chief_editor" ELSE "senior_analyst"

\* One iteration of `for state in app.stream(initial_state)`: node is run on
\* the channel values and res is what its body did; an exception leaving the
\* node leaves the loop through the except clause, which re-raises.
Step(node, res, outcome) ==
    /\ trace' = Append(trace, <<node, res.branch, outcome>>)
    /\ emitted' = emitted \o SubSeq(res.state.messages,
                                    Len(state.messages) + 1, Len(res.state.messages))
    /\ UNCHANGED <<has_gemini, has_openai>>
    /\ IF res.exc # NoException
       THEN /\ run_status' = "raised"
            /\ state' = res.state
            /\ UNCHANGED <<pc, final_state>>
       ELSE /\ state' = apply_writes(res.state)
            /\ final_state' = res.state
            /\ pc' = next_node(node, state')
            /\ UNCHANGED run_status

ChiefEditor ==
    /\ run_status = "running"
    /\ pc = "chief_editor"
    /\ Step("chief_editor", chief_editor_node(state), "")

DataEngineer ==
    /\ run_status = "running"
    /\ pc = "data_engineer"
    /\ \E fetch \in FetchOutcomes :
        Step("data_engineer", data_engineer_node(state, fetch), fetch)

Chartist ==
    /\ run_status = "running"
    /\ pc = "chartist"
    /\ \E render \in [DOMAIN state.raw_data -> ChartOutcomes] :
        Step("chartist", chartist_node(state, render),
             IF \E m \in DOMAIN render : render[m].raised THEN "raise" ELSE "ok")

SeniorAnalyst ==
    /\ run_status = "running"
    /\ pc = "senior_analyst"
    /\ \E llm \in LLMOutcomes :
        Step("senior_analyst",
             senior_analyst_node(state, has_gemini, has_openai, llm), llm.kind)

Debate ==
    /\ run_status = "running"
    /\ pc = "debate"
    /\ Step("debate", debate_node(state), "")

\* the stream is exhausted: run_report_generation returns the last node's state
Return ==
    /\ run_status = "running"
    /\ pc = "END"
    /\ run_status' = "returned"
    /\ UNCHANGED <<state, pc, final_state, has_gemini, has_openai, trace, emitted>>

Init ==
    /\ \E report_period \in ReportPeriods : state = create_initial_state(report_period)
    /\ pc = "chief_editor"
    /\ run_status = "running"
    /\ final_state = state
    /\ has_gemini \in BOOLEAN
    /\ has_openai \in BOOLEAN
    /\ trace = <<>>
    /\ emitted = <<>>

Next ==
    \/ ChiefEditor
    \/ DataEngineer
    \/ Chartist
    \/ SeniorAnalyst
    \/ Debate
    \/ Return

Spec == Init /\ [][Next]_vars

\* the graph driver keeps stepping until the stream is exhausted
FairSpec == Spec /\ WF_vars(Next)

----------------------------------------------------------------------------
(* A single call of a node on an arbitrary AgentState: the nodes and routers  *)
(* are module-level functions of agent_nodes.py and accept any state.        *)

\* most issues held by an input state
MaxIssuesIn == 4

\* largest debate_rounds of an input state
MaxRoundsIn == 3

CurrentSteps ==
    {"initialization", "data_collection", "chart_generation",
     "content_generation", "review", "finalization"}

Nodes == {"chief_editor", "data_engineer", "chartist", "senior_analyst", "debate"}

\* raw_data / chart_paths of an input state
DataIn ==
    { [raw_data |-> EmptyDict, chart_paths |-> EmptyDict],
      [raw_data |-> DictSet(EmptyDict, "macro", fetch_module_data("macro")),
       chart_paths |-> EmptyDict],
      [raw_data |-> DictSet(EmptyDict, "macro", fetch_module_data("macro")),
       chart_paths |-> DictSet(EmptyDict, "macro", MacroCharts)] }

\* draft_content / reviewed_content / final_content of an input state
ContentIn ==
    { [draft |-> EmptyDict, reviewed |-> EmptyDict, final |-> EmptyDict],
      [draft |-> DictSet(EmptyDict, "macro_analysis", "first draft"),
       reviewed |-> DictSet(EmptyDict, "macro_analysis", Rep(50)),
       final |-> EmptyDict],
      [draft |-> DictSet(EmptyDict, "macro_analysis", "first draft"),
       reviewed |-> DictSet(EmptyDict, "macro_analysis", Rep(50)),
       final |-> DictSet(EmptyDict, "macro_analysis", Rep(150))],
      [draft |-> DictSet(EmptyDict, "macro_analysis", "first draft"),
       reviewed |-> DictSet(EmptyDict, "macro_analysis", Rep(50)),
       final |-> DictSet(EmptyDict, "macro_analysis", Rep(MaxTextLen))] }

\* messages / errors / approval_status / quality_score of an input state
LogIn ==
    { [messages |-> <<>>, errors |-> <<>>, approval_status |-> "pending",
       quality_score |-> 0],
      [messages |-> <<AgentMessage("chief_editor", "data_engineer", "request",
                                   "earlier request")>>,
       errors |-> <<"earlier error">>, approval_status |-> "rejected",
       quality_score |-> 55] }

IssuesIn ==
    {[i \in 1..n |-> "issue " \o ToString(i)] : n \in 0..MaxIssuesIn}

InputStates ==
    { [ report_period     |-> p,
        current_step      |-> cs,
        raw_data          |-> d.raw_data,
        chart_paths       |-> d.chart_paths,
        draft_content     |-> c.draft,
        reviewed_content  |-> c.reviewed,
        final_content     |-> c.final,
        messages          |-> l.messages,
        debate_rounds     |-> r,
        consensus_reached |-> cr,
        quality_score     |-> l.quality_score,
        issues            |-> i,
        approval_status   |-> l.approval_status,
        errors            |-> l.errors ] :
      p \in ReportPeriods, cs \in CurrentSteps, d \in DataIn, c \in ContentIn,
      l \in LogIn, r \in 0..MaxRoundsIn, cr \in BOOLEAN, i \in IssuesIn }

NodeInit ==
    /\ state \in InputStates
    /\ pc \in Nodes
    /\ run_status = "running"
    /\ final_state = state
    /\ has_gemini \in BOOLEAN
    /\ has_openai \in BOOLEAN
    /\ pc # "senior_analyst" => (~has_gemini /\ ~has_openai)
    /\ trace = <<>>
    /\ emitted = <<>>

CallChiefEditor == trace = <<>> /\ ChiefEditor

CallDataEngineer == trace = <<>> /\ DataEngineer

CallChartist == trace = <<>> /\ Chartist

CallSeniorAnalyst == trace = <<>> /\ SeniorAnalyst

CallDebate == trace = <<>> /\ Debate

NodeNext ==
    \/ CallChiefEditor
    \/ CallDataEngineer
    \/ CallChartist
    \/ CallSeniorAnalyst
    \/ CallDebate

NodeSpec == NodeInit /\ [][NodeNext]_vars

----------------------------------------------------------------------------
(* calculate_quality_score called on bounded states of any shape *)

\* number of keys of raw_data / chart_paths
MaxModulesIn == 2
\* number of paths in one chart list
MaxChartsIn == 2
\* number of sections of final_content
MaxSectionsIn == 2
\* number of entries of issues
MaxScoreIssues == 7
\* number of calls on the same state
MaxCalls == 2

\* len(text) of a section, on both sides of the two thresholds of the score
SectionLens == {0, 50, 99, 100, 199, 200}

ModuleName(i) == "module " \o ToString(i)

SectionName(i) == "section " \o ToString(i)

\* raw_data: Dict[str, Dict]
RawDataIn ==
    { [m \in {ModuleName(i) : i \in 1..n} |-> fetch_module_data(m)]
        : n \in 0..MaxModulesIn }

\* chart_paths: Dict[str, List[str]], n lists of c paths each
ChartPathsIn ==
    { [m \in {ModuleName(i) : i \in 1..n} |-> [j \in 1..c |-> "chart.png"]]
        : n \in 0..MaxModulesIn, c \in 0..MaxChartsIn }

\* final_content: Dict[str, str], a first section of one length and the other
\* n - 1 sections of another
FinalContentIn ==
    { [k \in {SectionName(i) : i \in 1..n} |->
          IF k = SectionName(1) THEN Rep(first) ELSE Rep(rest)]
        : n \in 0..MaxSectionsIn, first \in SectionLens, rest \in SectionLens }

\* current_step before and at the review pass
ScoreSteps == {"initialization", "review"}

ScoreInputs ==
    { [create_initial_state(p) EXCEPT
          !.current_step = cs,
          !.raw_data = rd, !.chart_paths = cp, !.final_content = fc,
          !.issues = [i \in 1..n |-> "issue " \o ToString(i)]]
        : p \in ReportPeriods, cs \in ScoreSteps, rd \in RawDataIn,
          cp \in ChartPathsIn, fc \in FinalContentIn, n \in 0..MaxScoreIssues }

ScoreInit ==
    /\ state \in ScoreInputs
    /\ pc = "calculate_quality_score"
    /\ run_status = "running"
    /\ final_state = state
    /\ has_gemini = FALSE
    /\ has_openai = FALSE
    /\ trace = <<>>
    /\ emitted = <<>>

\* score = calculate_quality_score(state): the returned value is recorded,
\* the function assigns to no key of state
Score ==
    /\ pc = "calculate_quality_score"
    /\ Len(trace) < MaxCalls
    /\ trace' = Append(trace, <<"calculate_quality_score", "return",
                                calculate_quality_score(state)>>)
    /\ UNCHANGED <<state, pc, run_status, final_state, has_gemini, has_openai, emitted>>

\* the review pass of chief_editor_node, which stores the score
ReviewPass ==
    /\ pc = "calculate_quality_score"
    /\ trace = <<>>
    /\ state.current_step = "review"
    /\ run_status = "running"
    /\ Step("chief_editor", chief_editor_node(state), "")

ScoreNext ==
    \/ Score
    \/ ReviewPass

ScoreSpec == ScoreInit /\ [][ScoreNext]_vars

----------------------------------------------------------------------------
(* Observations on the executed steps *)

Steps(node) == {i \in 1..Len(trace) : trace[i][1] = node}

Branches(bs) == {i \in 1..Len(trace) : trace[i][2] \in bs}

\* steps in which a collaborator call raised inside a worker node
FailedSteps == Branches({"except", "raise"})

\* steps that assign consensus_reached = True
ConsensusSteps == Branches({"approved", "no_issues", "forced"})

\* review passes of the Reviewer
ReviewSteps == Branches({"approved", "rejected"})

Terminated == pc = "END"

----------------------------------------------------------------------------
(* Claims *)

\* C1: every run terminates - whatever the collaborators do and whichever
\* credentials are set, the graph started at chief_editor eventually reaches
\* END - and the debate step executes at most 2 times in the run.
C1_Termination ==
    /\ <>Terminated
    /\ [](Cardinality(Steps("debate")) <= 2)

C1_Witness ==
    /\ Terminated
    /\ Cardinality(Steps("debate")) = 2
    /\ Cardinality(FailedSteps) > 0

\* C2: in every reachable state debate_rounds is at most the configured
\* maximum (2), counting the Reviewer's and the Debate step's increments.
C2_DebateRoundsBounded == state.debate_rounds <= MaxDebateRounds

\* C3: across every step, debate_rounds does not decrease and the length of
\* messages does not decrease.
C3_Monotonic ==
    [][ /\ state'.debate_rounds >= state.debate_rounds
        /\ Len(state'.messages) >= Len(state.messages) ]_vars

C3_Witness ==
    /\ state.debate_rounds = 2
    /\ Cardinality(Branches({"round"})) = 1
    /\ Len(state.messages) > 2

\* C4: the message log is an exact append-only audit trail - after every step
\* it lists every message emitted so far exactly once, in emission order.
C4_AuditTrail == state.messages = emitted

\* C5: consensus_reached starts false, is never set back to false once true,
\* and is set to true by at most one step of the run.
C5_ConsensusStable ==
    /\ ~state.consensus_reached
    /\ [][ /\ state.consensus_reached => state'.consensus_reached
           /\ Cardinality(ConsensusSteps') <= 1 ]_vars

C5_Witness ==
    /\ state.consensus_reached
    /\ Terminated
    /\ Cardinality(ConsensusSteps) = 1

\* C6: once consensus_reached is true no later step changes draft_content or
\* reviewed_content, and the Narrative Drafter never runs after consensus.
C6_ContentFrozen ==
    [][ /\ state.consensus_reached =>
              /\ state'.draft_content = state.draft_content
              /\ state'.reviewed_content = state.reviewed_content
        /\ state'.consensus_reached => pc' # "senior_analyst" ]_vars

C6_Witness ==
    /\ state.consensus_reached
    /\ trace # <<>>
    /\ trace[Len(trace)][1] = "chief_editor"
    /\ ~IsEmptyDict(state.draft_content)

\* C7: a run that performs reviews, none of which reaches the approval
\* threshold, still terminates through forced consensus: it returns a terminal
\* state with consensus_reached = true and approval_status = rejected.
C7_ForcedConsensus ==
    (ReviewSteps # {}) ~>
        \/ Branches({"approved"}) # {}
        \/ /\ run_status = "returned"
           /\ Branches({"forced"}) # {}
           /\ final_state.consensus_reached
           /\ final_state.approval_status = "rejected"

C7_Witness ==
    /\ run_status = "returned"
    /\ Cardinality(ReviewSteps) = 2
    /\ Branches({"forced"}) # {}
    /\ final_state.approval_status = "rejected"

\* C8: soft failures never abort a run - a collaborator that raises inside its
\* worker step is absorbed there (the step returns a state and the failure is
\* recorded in errors and issues), and the run goes on to END and returns a
\* terminal state.
C8_SoftFailuresAbsorbed ==
    /\ [](/\ Branches({"raise"}) = {}
          /\ run_status # "raised"
          /\ Len(state.errors) = Cardinality(FailedSteps))
    /\ (FailedSteps # {}) ~> (run_status = "returned")

C8_Witness ==
    /\ run_status = "returned"
    /\ Cardinality(FailedSteps) = 2
    /\ Len(final_state.errors) = 2

\* C9 (as claimed): a failed collaborator call aborts the run - once a worker's
\* collaborator has raised, run_report_generation never returns a state.
C9_FailureAbortsRun == FailedSteps # {} => run_status # "returned"

\* C9 (amended): a failed collaborator call never makes run_report_generation
\* raise; the run returns a terminal state whose errors list holds one entry
\* per failed call.
C9_FailureReturnsState ==
    /\ run_status # "raised"
    /\ run_status = "returned" => Len(final_state.errors) = Cardinality(FailedSteps)

C9_Witness ==
    /\ run_status = "returned"
    /\ \E i \in FailedSteps : trace[i][1] = "chartist"
    /\ Len(final_state.errors) > 0

\* C10: at termination final_content equals reviewed_content, so the returned
\* state carries the drafted text whenever the Narrative Drafter produced one.
C10_FinalContentIsReviewed ==
    run_status = "returned" => final_state.final_content = final_state.reviewed_content

----------------------------------------------------------------------------
(* Node contracts: the state a node was entered with (state) against the     *)
(* state it returned (final_state')                                          *)

\* this step is an execution of node
Ran(node) ==
    /\ Len(trace') = Len(trace) + 1
    /\ trace'[Len(trace')][1] = node

\* the collaborator outcome recorded for this step
Outcome == trace'[Len(trace')][3]

\* after is before with exactly one element appended
AppendsOne(before, after) ==
    /\ Len(after) = Len(before) + 1
    /\ SubSeq(after, 1, Len(before)) = before

Last(seq) == seq[Len(seq)]

FirstStep == trace[1]

\* C11: Reviewer entered with current_step = review and a computed score of
\* at least 80 sets approval_status = approved, consensus_reached = true,
\* final_content to the entered reviewed_content, quality_score to the computed
\* score and current_step = finalization; debate_rounds and issues stay as they were.
C11_ReviewApproves ==
    [][ ( /\ Ran("chief_editor")
          /\ state.current_step = "review"
          /\ calculate_quality_score(state) >= 80 )
        => /\ final_state'.approval_status = "approved"
           /\ final_state'.consensus_reached
           /\ final_state'.final_content = state.reviewed_content
           /\ final_state'.quality_score = calculate_quality_score(state)
           /\ final_state'.current_step = "finalization"
           /\ final_state'.debate_rounds = state.debate_rounds
           /\ final_state'.issues = state.issues ]_vars

C11_Witness ==
    /\ trace # <<>>
    /\ FirstStep[2] = "approved"
    /\ final_state.quality_score = 80
    /\ final_state.approval_status = "approved"
    /\ final_state.debate_rounds > 0
    /\ ~IsEmptyDict(final_state.final_content)

\* C12: Reviewer entered with current_step = review and a computed score below
\* 80 sets approval_status = rejected, appends exactly one issue (the numeric
\* shortfall), adds exactly 1 to debate_rounds and leaves consensus_reached and
\* final_content alone; whatever the score, current_step is finalization afterwards.
C12_ReviewRejects ==
    [][ ( /\ Ran("chief_editor")
          /\ state.current_step = "review" )
        => /\ final_state'.current_step = "finalization"
           /\ calculate_quality_score(state) < 80 =>
                /\ final_state'.approval_status = "rejected"
                /\ AppendsOne(state.issues, final_state'.issues)
                /\ Last(final_state'.issues) =
                       "quality score too low: "
                       \o ToString(calculate_quality_score(state)) \o "/100"
                /\ final_state'.debate_rounds = state.debate_rounds + 1
                /\ final_state'.consensus_reached = state.consensus_reached
                /\ final_state'.final_content = state.final_content ]_vars

C12_Witness ==
    /\ trace # <<>>
    /\ FirstStep[2] = "rejected"
    /\ Len(final_state.issues) > 2
    /\ final_state.consensus_reached
    /\ final_state.debate_rounds > 1
    /\ ~IsEmptyDict(final_state.final_content)

\* C13: Reviewer entered with current_step = initialization emits exactly one
\* message (a request from chief_editor to data_engineer), sets current_step =
\* data_collection and changes nothing else: no score, status, issue, counter,
\* consensus or content field.
C13_ReviewerInit ==
    [][ ( /\ Ran("chief_editor")
          /\ state.current_step = "initialization" )
        => /\ AppendsOne(state.messages, final_state'.messages)
           /\ AppendsOne(emitted, emitted')
           /\ Last(final_state'.messages) = Last(emitted')
           /\ Last(emitted').message_type = "request"
           /\ Last(emitted').from_agent = "chief_editor"
           /\ Last(emitted').to_agent = "data_engineer"
           /\ final_state' = [state EXCEPT !.messages = final_state'.messages,
                                           !.current_step = "data_collection"] ]_vars

C13_Witness ==
    /\ trace # <<>>
    /\ FirstStep[2] = "initialization"
    /\ Len(final_state.messages) = 2
    /\ final_state.issues # <<>>
    /\ final_state.approval_status = "rejected"

\* C14: Debate entered with an empty issue list, whatever debate_rounds is,
\* sets consensus_reached = true and leaves debate_rounds, messages, issues
\* and current_step as they were.
C14_DebateNoIssues ==
    [][ ( /\ Ran("debate")
          /\ state.issues = <<>> )
        => /\ final_state'.consensus_reached
           /\ emitted' = emitted
           /\ final_state' = [state EXCEPT !.consensus_reached = TRUE] ]_vars

C14_Witness ==
    /\ trace # <<>>
    /\ FirstStep[2] = "no_issues"
    /\ final_state.debate_rounds < 2
    /\ final_state.messages # <<>>
    /\ final_state.consensus_reached

\* C15: Debate entered with issues and debate_rounds >= 2 sets
\* consensus_reached = true whatever the issues are, emits no message and
\* leaves issues and debate_rounds as they were.
C15_DebateForced ==
    [][ ( /\ Ran("debate")
          /\ state.issues # <<>>
          /\ state.debate_rounds >= 2 )
        => /\ final_state'.consensus_reached
           /\ emitted' = emitted
           /\ final_state'.messages = state.messages
           /\ final_state'.issues = state.issues
           /\ final_state'.debate_rounds = state.debate_rounds ]_vars

C15_Witness ==
    /\ trace # <<>>
    /\ FirstStep[2] = "forced"
    /\ final_state.debate_rounds = 2
    /\ Len(final_state.issues) > 1
    /\ final_state.consensus_reached

\* C16: Debate entered with issues and debate_rounds < 2 emits exactly one
\* rebuttal built from at most the first three issues, empties issues, adds
\* exactly 1 to debate_rounds, sets current_step = review and leaves
\* consensus_reached and the three content fields as they were.
C16_DebateRound ==
    [][ ( /\ Ran("debate")
          /\ state.issues # <<>>
          /\ state.debate_rounds < 2 )
        => /\ AppendsOne(state.messages, final_state'.messages)
           /\ AppendsOne(emitted, emitted')
           /\ Last(final_state'.messages) = Last(emitted')
           /\ Last(emitted').message_type = "rebuttal"
           /\ Last(emitted').content =
                  "improved on: " \o
                  ( IF Len(state.issues) = 1 THEN state.issues[1]
                    ELSE IF Len(state.issues) = 2
                         THEN state.issues[1] \o ", " \o state.issues[2]
                    ELSE state.issues[1] \o ", " \o state.issues[2]
                         \o ", " \o state.issues[3] )
           /\ final_state'.issues = <<>>
           /\ final_state'.debate_rounds = state.debate_rounds + 1
           /\ final_state'.current_step = "review"
           /\ final_state'.consensus_reached = state.consensus_reached
           /\ final_state'.draft_content = state.draft_content
           /\ final_state'.reviewed_content = state.reviewed_content
           /\ final_state'.final_content = state.final_content ]_vars

C16_Witness ==
    /\ trace # <<>>
    /\ FirstStep[2] = "round"
    /\ Last(emitted).content = "improved on: issue 1, issue 2, issue 3"
    /\ final_state.issues = <<>>
    /\ final_state.debate_rounds = 2
    /\ final_state.consensus_reached

C18_WorkerFailure ==
    [][ /\ (Ran("data_engineer") \/ Ran("chartist")) =>
              /\ run_status' = "running"
              /\ Outcome = "raise" =>
                    /\ AppendsOne(state.errors, final_state'.errors)
                    /\ AppendsOne(state.issues, final_state'.issues)
                    /\ Last(final_state'.errors) = Last(final_state'.issues)
                    /\ final_state'.current_step = state.current_step
                    /\ final_state'.raw_data = state.raw_data
                    /\ final_state'.chart_paths = state.chart_paths
              /\ Outcome # "raise" =>
                    /\ final_state'.errors = state.errors
                    /\ final_state'.issues = state.issues
        /\ (Ran("data_engineer") /\ Outcome # "raise") =>
              /\ DOMAIN final_state'.raw_data = {"macro"}
              /\ final_state'.raw_data["macro"] = fetch_module_data("macro")
              /\ final_state'.current_step = "chart_generation"
        /\ (Ran("chartist") /\ Outcome # "raise") =>
              /\ DOMAIN final_state'.chart_paths = DOMAIN state.raw_data
              /\ final_state'.current_step = "content_generation" ]_vars

C18_Witness ==
    /\ trace # <<>>
    /\ FirstStep = <<"chartist", "except", "raise">>
    /\ ~IsEmptyDict(final_state.chart_paths)
    /\ Len(final_state.errors) = 2
    /\ final_state.current_step = "review"
    /\ run_status = "running"

\* C19: the Narrative Drafter always advances current_step to review - after
\* every execution, on every path (mock text, generated text, no macro data,
\* writer construction or generation failure), current_step = review.
C19_DrafterAdvances ==
    [][ Ran("senior_analyst") => state'.current_step = "review" ]_vars

\* C20: whenever the Narrative Drafter writes content it writes one mapping to
\* both draft_content and reviewed_content - without a credential the fixed
\* placeholder for macro_analysis, whatever the collaborator would have done -
\* so draft_content = reviewed_content in every state of a run.
C20_DraftEqualsReviewed ==
    /\ [](state.draft_content = state.reviewed_content)
    /\ [][ Ran("senior_analyst") =>
              /\ final_state'.draft_content = final_state'.reviewed_content
              /\ (~has_gemini /\ ~has_openai) =>
                    /\ DOMAIN final_state'.draft_content = {"macro_analysis"}
                    /\ final_state'.draft_content["macro_analysis"] = MockText
                    /\ final_state'.errors = state.errors
                    /\ final_state'.issues = state.issues ]_vars

C20_Witness ==
    /\ ~has_gemini
    /\ ~has_openai
    /\ Cardinality(Steps("senior_analyst")) = 2
    /\ DOMAIN state.draft_content = {"macro_analysis"}
    /\ state.reviewed_content["macro_analysis"] = MockText

----------------------------------------------------------------------------
(* Scoring *)

\* the calls of calculate_quality_score and the value the i-th one returned
ScoreCalls == {i \in 1..Len(trace) : trace[i][1] = "calculate_quality_score"}

Returned(i) == trace[i][3]

\* the state of the worked example: one module, no charts, one 50-character
\* section, one issue
IsScoreExample(s) ==
    /\ Cardinality(DOMAIN s.raw_data) = 1
    /\ DOMAIN s.chart_paths = {}
    /\ Cardinality(DOMAIN s.final_content) = 1
    /\ \A k \in DOMAIN s.final_content : Len(s.final_content[k]) = 50
    /\ Len(s.issues) = 1

\* C21: every value returned by the scoring function is 100 minus the four
\* deductions of the reference formula (20/10 for missing/single raw_data,
\* 20/10 for missing/fewer than two charts, 30/20/10 for empty/short/medium
\* final_content by mean section length, 30/15/5 by issue count), floored at
\* 0; it lies in 0..100; and the worked example scores 45.
C21_ScoreFormula ==
    LET modules  == Cardinality(DOMAIN state.raw_data)
        charts   == SumLen(state.chart_paths)
        sections == Cardinality(DOMAIN state.final_content)
        chars    == SumLen(state.final_content)
        n        == Len(state.issues)
        d_raw    == IF modules = 0 THEN 20 ELSE IF modules < 2 THEN 10 ELSE 0
        d_chart  == IF DOMAIN state.chart_paths = {} THEN 20
                    ELSE IF charts < 2 THEN 10 ELSE 0
        d_text   == IF sections = 0 THEN 30
                    ELSE IF chars < 100 * sections THEN 20
                    ELSE IF chars < 200 * sections THEN 10 ELSE 0
        d_issue  == IF n > 5 THEN 30 ELSE IF n > 2 THEN 15
                    ELSE IF n > 0 THEN 5 ELSE 0
        raw      == 100 - d_raw - d_chart - d_text - d_issue
        expected == IF raw < 0 THEN 0 ELSE raw
    IN \A i \in ScoreCalls :
        /\ Returned(i) = expected
        /\ Returned(i) \in 0..100
        /\ IsScoreExample(state) => Returned(i) = 45

\* the worked example has been scored
C21_Witness ==
    /\ 1 \in ScoreCalls
    /\ IsScoreExample(state)
    /\ Returned(1) = 45

\* the states that differ from s only in fields the score must not depend on
SameScoredFields(s, steps) ==
    { [s EXCEPT !.current_step = cs, !.debate_rounds = r,
                !.messages = l.messages, !.errors = l.errors,
                !.approval_status = l.approval_status,
                !.quality_score = l.quality_score]
        : cs \in steps, r \in 0..MaxRoundsIn, l \in LogIn }

----------------------------------------------------------------------------
(* Whole runs *)

\* the linear part of the graph: entry point and the three plain edges
FirstSteps ==
    <<"chief_editor", "data_engineer", "chartist", "senior_analyst", "chief_editor">>

\* C23: the first five steps of every run are Reviewer (initialization), Data
\* Collector, Chart Renderer, Narrative Drafter, Reviewer, in this order; the
\* Data Collector and the Chart Renderer never execute a second time, and
\* every run gets as far as the fifth step with each of them executed once.
C23_StepOrder ==
    /\ [](/\ \A i \in 1..Len(trace) :
               i <= Len(FirstSteps) => trace[i][1] = FirstSteps[i]
          /\ Len(trace) >= 1 => trace[1][2] = "initialization"
          /\ Cardinality(Steps("data_engineer")) <= 1
          /\ Cardinality(Steps("chartist")) <= 1
          /\ \A i \in 1..Len(trace) :
               i > Len(FirstSteps) =>
                   trace[i][1] \in {"senior_analyst", "chief_editor", "debate"})
    /\ <>[](/\ Len(trace) >= Len(FirstSteps)
            /\ Cardinality(Steps("data_engineer")) = 1
            /\ Cardinality(Steps("chartist")) = 1)

\* a finished run with two failed collaborator calls in which the Drafter,
\* the Reviewer and Debate executed again
C23_Witness ==
    /\ Terminated
    /\ Cardinality(FailedSteps) = 2
    /\ Cardinality(Steps("data_engineer")) = 1
    /\ Cardinality(Steps("chartist")) = 1
    /\ Cardinality(Steps("senior_analyst")) = 2
    /\ Cardinality(Steps("debate")) = 2
    /\ Cardinality(Steps("chief_editor")) = 4

\* the highest score a review pass of a run can compute: one module (-10),
\* empty final_content (-30)
MaxRunScore == 60

\* C25: no run reaches approval: in every reachable state final_content is
\* empty and raw_data has at most one module, every stored quality_score is
\* at most 60, below the threshold of 80, approval_status is never approved,
\* the Reviewer never takes its approving branch and so never sets
\* consensus_reached, and the returned state has an empty final_content.
C25_NeverApproved ==
    /\ state.final_content = EmptyDict
    /\ final_state.final_content = EmptyDict
    /\ Cardinality(DOMAIN state.raw_data) <= 1
    /\ state.quality_score <= MaxRunScore
    /\ MaxRunScore < ApprovalThreshold
    /\ \A i \in ReviewSteps : trace[i][2] = "rejected"
    /\ state.approval_status # "approved"
    /\ state.consensus_reached => Steps("debate") # {}

\* a returned run whose reviews saw data, both charts and a full-length
\* draft, scored 60 and rejected
C25_Witness ==
    /\ run_status = "returned"
    /\ Cardinality(ReviewSteps) = 2
    /\ state.quality_score = MaxRunScore
    /\ state.approval_status = "rejected"
    /\ SumLen(state.reviewed_content) = MaxTextLen
    /\ SumLen(state.chart_paths) = 2
    /\ state.final_content = EmptyDict

\* the branches the steps of a node took, in order
RECURSIVE BranchesOfUpTo(_, _)
BranchesOfUpTo(node, n) ==
    IF n = 0 THEN <<>>
    ELSE IF trace[n][1] = node THEN Append(BranchesOfUpTo(node, n - 1), trace[n][2])
    ELSE BranchesOfUpTo(node, n - 1)

BranchesOf(node) == BranchesOfUpTo(node, Len(trace))

\* the rebuttals the Debate step has emitted
Rebuttals == {i \in 1..Len(emitted) : emitted[i].message_type = "rebuttal"}

\* the revise loop has run its single round and the run is over
LoopRanOnce ==
    /\ Terminated
    /\ Cardinality(ReviewSteps) = 2
    /\ BranchesOf("debate") = <<"round", "forced">>
    /\ Cardinality(Steps("senior_analyst")) = 2
    /\ Cardinality(Rebuttals) = 1
    /\ state.debate_rounds = 3

\* C26: a run that reaches a first review never reviews, debates or drafts
\* more than twice and never emits a second rebuttal, and it ends after
\* exactly two reviews, two Debate steps (a round with the only rebuttal, then
\* forced consensus) and two Drafter steps, with debate_rounds = 3.
C26_LoopRunsOnce ==
    /\ [](/\ Cardinality(ReviewSteps) <= 2
          /\ Cardinality(Steps("debate")) <= 2
          /\ Cardinality(Steps("senior_analyst")) <= 2
          /\ Cardinality(Rebuttals) <= 1
          /\ (Terminated /\ ReviewSteps # {}) => LoopRanOnce)
    /\ (ReviewSteps # {}) ~> LoopRanOnce

\* the revise loop has run once in a run whose second draft failed
C26_Witness ==
    /\ LoopRanOnce
    /\ BranchesOf("senior_analyst") = <<"llm", "except">>
    /\ run_status = "returned"

\* the branch taken by the step being executed
Branch == trace'[Len(trace')][2]

\* C27: whenever Debate executes in a run, the step before it was a rejecting
\* review and issues is non-empty, so Debate never takes its empty-issues
\* branch; consensus_reached only ever becomes true in Debate's forcing
\* branch, entered with debate_rounds >= 2.
C27_DebateHasIssues ==
    [][ /\ Ran("debate") =>
            /\ Len(state.issues) > 0
            /\ Last(trace)[1] = "chief_editor"
            /\ Last(trace)[2] = "rejected"
            /\ Branch \in {"round", "forced"}
        /\ (state'.consensus_reached /\ ~state.consensus_reached) =>
            /\ Ran("debate")
            /\ Branch = "forced"
            /\ state.debate_rounds >= MaxDebateRounds
      ]_vars

\* consensus has been forced in a run without any collaborator failure
C27_Witness ==
    /\ state.consensus_reached
    /\ BranchesOf("debate") = <<"round", "forced">>
    /\ FailedSteps = {}
    /\ Len(state.issues) = 1

\* the Narrative Drafter's first execution took its except clause
FirstDraftRaised ==
    /\ Steps("senior_analyst") # {}
    /\ BranchesOf("senior_analyst")[1] = "except"

\* the last router call returned "end" from its finalization branch
EndedByConsensus ==
    /\ state.current_step = "finalization"
    /\ state.consensus_reached
    /\ Steps("debate") # {}
    /\ Last(BranchesOf("debate")) = "forced"

\* the last router call returned "end" from its final else
EndedByDefault ==
    /\ state.current_step \notin {"data_collection", "finalization"}

\* C28: a run ends either after forced consensus, with consensus_reached
\* and approval_status = rejected, or through the router's default; the
\* default is taken exactly when the Narrative Drafter raised on its first
\* execution, and then no review was performed, consensus_reached is false,
\* approval_status is pending, quality_score and debate_rounds are 0 and
\* errors is non-empty.
C28_TwoEndings ==
    Terminated =>
        /\ EndedByDefault <=> FirstDraftRaised
        /\ EndedByDefault <=> ~EndedByConsensus
        /\ EndedByConsensus =>
              /\ Steps("debate") # {}
              /\ state.approval_status = "rejected"
        /\ EndedByDefault =>
              /\ state.current_step \in {"chart_generation", "content_generation"}
              /\ ReviewSteps = {}
              /\ ~state.consensus_reached
              /\ state.approval_status = "pending"
              /\ state.quality_score = 0
              /\ state.debate_rounds = 0
              /\ Len(state.errors) > 0

\* a run has returned through the router's default after the writer could
\* not be constructed
C28_Witness ==
    /\ run_status = "returned"
    /\ EndedByDefault
    /\ Last(trace) = <<"chief_editor", "noop", "">>
    /\ trace[4] = <<"senior_analyst", "except", "ctor_raise">>
    /\ state.approval_status = "pending"

\* the keys of the state other than the messages channel
PlainKeys == DOMAIN create_initial_state("") \ {"messages"}

\* the issue appended by the rejecting branch for a score
ShortfallIssue(score) == "quality score too low: " \o ToString(score) \o "/100"

----------------------------------------------------------------------------
(* Two runs of run_report_generation without a narrative credential, side by
   side: both get the same answers from the data and chart collaborators, call
   by call; the writer, which must not be consulted, may answer each run
   differently *)

Runs == {1, 2}

\* what the node does on s when the collaborators answer fetch, render, llm
NodeResult(node, s, fetch, render, llm) ==
    IF node = "chief_editor" THEN chief_editor_node(s)
    ELSE IF node = "data_engineer" THEN data_engineer_node(s, fetch)
    ELSE IF node = "chartist" THEN chartist_node(s, render)
    ELSE IF node = "senior_analyst" THEN senior_analyst_node(s, FALSE, FALSE, llm)
    ELSE debate_node(s)

\* the collaborator answer logged with a step
NodeOutcome(node, s, fetch, render, llm) ==
    IF node = "data_engineer" THEN fetch
    ELSE IF node = "chartist" THEN
        IF \E m \in DOMAIN s.raw_data : render[m].raised THEN "raise" ELSE "ok"
    ELSE IF node = "senior_analyst" THEN llm.kind
    ELSE ""

PairInit ==
    /\ \E report_period \in ReportPeriods :
          state = [k \in Runs |-> create_initial_state(report_period)]
    /\ pc = [k \in Runs |-> "chief_editor"]
    /\ run_status = [k \in Runs |-> "running"]
    /\ final_state = state
    /\ has_gemini = FALSE
    /\ has_openai = FALSE
    /\ trace = [k \in Runs |-> <<>>]
    /\ emitted = [k \in Runs |-> <<>>]

\* the answers a collaborator can give in this step: all of them if some run
\* is at the node that calls it, otherwise one that nobody reads
Asked(node, answers) ==
    IF \E k \in Runs : pc[k] = node THEN answers
    ELSE {CHOOSE a \in answers : TRUE}

\* one iteration of the stream loop in each run that is still streaming
PairStep ==
    /\ \E k \in Runs : run_status[k] = "running" /\ pc[k] # "END"
    /\ \E fetch \in Asked("data_engineer", FetchOutcomes),
          render \in Asked("chartist",
                           [{Modules[i] : i \in 1..Len(Modules)} -> ChartOutcomes]),
          llm \in Asked("senior_analyst", [Runs -> LLMOutcomes]) :
        LET stepping(k) == run_status[k] = "running" /\ pc[k] # "END"
            res(k) == NodeResult(pc[k], state[k], fetch, render, llm[k])
            out(k) == NodeOutcome(pc[k], state[k], fetch, render, llm[k])
            ok(k)  == res(k).exc = NoException
        IN /\ state' = [k \in Runs |->
                 IF ~stepping(k) THEN state[k]
                 ELSE IF ok(k) THEN apply_writes(res(k).state) ELSE res(k).state]
           /\ final_state' = [k \in Runs |->
                 IF stepping(k) /\ ok(k) THEN res(k).state ELSE final_state[k]]
           /\ pc' = [k \in Runs |->
                 IF stepping(k) /\ ok(k) THEN next_node(pc[k], state'[k]) ELSE pc[k]]
           /\ run_status' = [k \in Runs |->
                 IF stepping(k) /\ ~ok(k) THEN "raised" ELSE run_status[k]]
           /\ trace' = [k \in Runs |->
                 IF stepping(k) THEN Append(trace[k], <<pc[k], res(k).branch, out(k)>>)
                 ELSE trace[k]]
           /\ emitted' = [k \in Runs |->
                 IF stepping(k)
                 THEN emitted[k] \o SubSeq(res(k).state.messages,
                                           Len(state[k].messages) + 1,
                                           Len(res(k).state.messages))
                 ELSE emitted[k]]
    /\ UNCHANGED <<has_gemini, has_openai>>

\* both streams are exhausted: each call returns its last node's state
PairReturn ==
    /\ \A k \in Runs : run_status[k] = "running" /\ pc[k] = "END"
    /\ run_status' = [k \in Runs |-> "returned"]
    /\ UNCHANGED <<state, pc, final_state, has_gemini, has_openai, trace, emitted>>

PairNext ==
    \/ PairStep
    \/ PairReturn

PairSpec == PairInit /\ [][PairNext]_vars

\* the nodes and branches a run has executed, in order
StepSequence(k) == [i \in 1..Len(trace[k]) |-> <<trace[k][i][1], trace[k][i][2]>>]

\* the fields of the returned state that a rerun must reproduce
Reproduced(s) ==
    <<s.draft_content, s.reviewed_content, s.quality_score, s.issues,
      s.debate_rounds, s.approval_status>>

Placeholder == DictSet(EmptyDict, "macro_analysis", MockText)

\* C24: without a narrative credential a finished run has performed a review,
\* its approval_status is approved or rejected, draft_content and
\* reviewed_content are the placeholder; and two runs that get the same
\* collaborator answers execute the same steps and return the same
\* draft_content, reviewed_content, quality_score, issues, debate_rounds and
\* approval_status.
C24_NoCredentialRun ==
    /\ \A k \in Runs :
          run_status[k] = "returned" =>
              /\ \E i \in 1..Len(trace[k]) : trace[k][i][2] \in {"approved", "rejected"}
              /\ final_state[k].approval_status \in {"approved", "rejected"}
              /\ final_state[k].draft_content = Placeholder
              /\ final_state[k].reviewed_content = Placeholder
    /\ StepSequence(1) = StepSequence(2)
    /\ pc[1] = pc[2]
    /\ (\A k \in Runs : run_status[k] = "returned") =>
          Reproduced(final_state[1]) = Reproduced(final_state[2])

\* two finished runs whose data fetch failed and whose writers would have
\* answered differently
C24_Witness ==
    /\ \A k \in Runs : run_status[k] = "returned"
    /\ trace[1][2][3] = "raise"
    /\ trace[1][4][3] = "text"
    /\ trace[2][4][3] = "generate_raise"
    /\ final_state[1].approval_status = "rejected"
    /\ final_state[2].draft_content = Placeholder

----------------------------------------------------------------------------
(* add_message called on a state with and without earlier messages *)

Agents == {"chief_editor", "data_engineer", "senior_analyst"}

MessageTypes == {"request", "response", "challenge", "rebuttal"}

Contents == {"", "please fetch the data"}

MetadataIn == {None, EmptyDict, [round |-> "1"]}

Timestamps == {"2024-12-09T10:00:00", "2024-12-09T10:00:01"}

MessageInputs ==
    { [create_initial_state(p) EXCEPT !.messages = l.messages]
        : p \in ReportPeriods, l \in LogIn }

MessageInit ==
    /\ state \in MessageInputs
    /\ pc = "add_message"
    /\ run_status = "running"
    /\ final_state = state
    /\ has_gemini = FALSE
    /\ has_openai = FALSE
    /\ trace = <<>>
    /\ emitted = <<>>

\* message = add_message(state, from_agent, to_agent, message_type, content,
\* metadata): the returned message is recorded
AddMessage ==
    /\ pc = "add_message"
    /\ trace = <<>>
    /\ \E from_agent \in Agents, to_agent \in Agents, message_type \in MessageTypes,
          content \in Contents, metadata \in MetadataIn, now \in Timestamps :
        LET res == add_message(state, from_agent, to_agent, message_type,
                               content, metadata, now)
        IN /\ state' = res.state
           /\ trace' = Append(trace, <<"add_message", "return", res.message>>)
    /\ UNCHANGED <<pc, run_status, final_state, has_gemini, has_openai, emitted>>

MessageNext == AddMessage

MessageSpec == MessageInit /\ [][MessageNext]_vars

\* C30: after add_message(state, ...) the state's messages is the earlier
\* log followed by the created message, which carries the given from_agent,
\* to_agent, message_type and content.
C30_AddMessageAppends ==
    [][ Ran("add_message") =>
            /\ Outcome.from_agent \in Agents
            /\ Outcome.message_type \in MessageTypes
            /\ AppendsOne(state.messages, state'.messages)
            /\ Last(state'.messages) = Outcome
      ]_vars

====
